---- MODULE Spec2Model ----
(***************************************************************************)
(* quick-findr maintenance scripts: the two brace fixers, the three        *)
(* section rebuilders of ui/app_window.slint and the pruner of             *)
(* favorites.json.                                                         *)
(*                                                                         *)
(* A text document is a sequence of characters.  The characters are "{",   *)
(* "}", " ", the line feed NL and "x" (a run of any other text); three     *)
(* more stand for the literals the scripts search for: "M" for             *)
(* 'for fav in root.favorites : Rectangle {', "H" for 'HorizontalLayout {' *)
(* and "S" for '// Séparateur'.  "M" and "H" each hold one '{'.            *)
(*                                                                         *)
(* Every script of a family gets its own working copy of the same input    *)
(* document, file[s], and may be run on it up to MaxRuns times (the        *)
(* rebuilders up to MaxRebuilds times).  One action is one whole run of    *)
(* one script: read, transform, write, exit.                               *)
(***************************************************************************)
EXTENDS Integers, Sequences, FiniteSets, TLC

VARIABLES input, file, runs, last

vars == <<input, file, runs, last>>

\* ---------------------------------------------------------------- bounds
MaxLen == 5
MaxRuns == 2
MaxRebuilds == 1
MaxLines == 4
MaxChunks == 4
MaxFolders == 3

\* ------------------------------------------------------------ characters
NL == "\n"

Whitespace == {" ", NL}

BraceChars == {"{", "}", " ", NL, "x"}

OpenCount(ch) == IF ch \in {"{", "M", "H"} THEN 1 ELSE 0

CloseCount(ch) == IF ch = "}" THEN 1 ELSE 0

\* str.count('{') and str.count('}')
CountOpen(s) == Cardinality({i \in DOMAIN s : OpenCount(s[i]) = 1})

CountClose(s) == Cardinality({i \in DOMAIN s : CloseCount(s[i]) = 1})

Net(s) == CountOpen(s) - CountClose(s)

Min(S) == CHOOSE m \in S : \A k \in S : m <= k

Max(S) == CHOOSE m \in S : \A k \in S : m >= k

SeqsUpTo(S, n) == UNION {[1..k -> S] : k \in 0..n}

Remove(s, j) == SubSeq(s, 1, j - 1) \o SubSeq(s, j + 1, Len(s))

\* the position of the first line feed of content from position i on, 0 if none
RECURSIVE IndexOfNL(_, _)
IndexOfNL(content, i) ==
    IF i > Len(content) THEN 0
    ELSE IF content[i] = NL THEN i
    ELSE IndexOfNL(content, i + 1)

\* f.readlines(): every line keeps its line feed; the last one may have none
RECURSIVE ReadLines(_)
ReadLines(content) ==
    IF content = <<>> THEN <<>>
    ELSE LET k == IndexOfNL(content, 1)
         IN IF k = 0 THEN <<content>>
            ELSE <<SubSeq(content, 1, k)>>
                     \o ReadLines(SubSeq(content, k + 1, Len(content)))

\* content.split('\n'): k line feeds give k + 1 pieces, none holding one
RECURSIVE Split(_)
Split(content) ==
    LET k == IndexOfNL(content, 1)
    IN IF k = 0 THEN <<content>>
       ELSE <<SubSeq(content, 1, k - 1)>>
                \o Split(SubSeq(content, k + 1, Len(content)))

\* f.writelines(lines)
RECURSIVE Concat(_)
Concat(lines) ==
    IF lines = <<>> THEN <<>> ELSE Head(lines) \o Concat(Tail(lines))

\* '\n'.join(lines)
RECURSIVE Join(_)
Join(lines) ==
    IF lines = <<>> THEN <<>>
    ELSE IF Len(lines) = 1 THEN lines[1]
    ELSE lines[1] \o <<NL>> \o Join(Tail(lines))

\* str.strip()
Strip(line) ==
    LET ink == {i \in DOMAIN line : line[i] \notin Whitespace}
    IN IF ink = {} THEN <<>> ELSE SubSeq(line, Min(ink), Max(ink))

\* '}\n' * n
RECURSIVE CloseLines(_)
CloseLines(n) == IF n <= 0 THEN <<>> ELSE <<"}", NL>> \o CloseLines(n - 1)

\* ----------------------------------------------------------- brace fixers

\* lines[j].strip() == '}'
IsLoneClose(line) == Strip(line) = <<"}">>

\* for j in range(len(lines) - 1, -1, -1): the index popped, 0 when the
\* inner loop ends without a break
LastLone(lines) ==
    LET lone == {j \in DOMAIN lines : IsLoneClose(lines[j])}
    IN IF lone = {} THEN 0 ELSE Max(lone)

\* the outer loop: n passes, each popping the last lone '}' line if any.
\* Returns the lines left and the indices popped, in order.
RECURSIVE RemoveSurplus(_, _)
RemoveSurplus(lines, n) ==
    IF n <= 0 THEN [lines |-> lines, popped |-> <<>>]
    ELSE LET j == LastLone(lines)
         IN IF j = 0 THEN RemoveSurplus(lines, n - 1)
            ELSE LET rest == RemoveSurplus(Remove(lines, j), n - 1)
                 IN [lines |-> rest.lines, popped |-> <<j>> \o rest.popped]

\* brace_level after the scan of analyze_and_fix.py
RECURSIVE BraceLevel(_)
BraceLevel(lines) ==
    IF lines = <<>> THEN 0
    ELSE BraceLevel(SubSeq(lines, 1, Len(lines) - 1)) + Net(lines[Len(lines)])

\* the lines at which the running level is below zero
ErrorLines(lines) ==
    {i \in DOMAIN lines : BraceLevel(SubSeq(lines, 1, i)) < 0}

\* lines.append('}\n' * brace_level)
AppendMissing(lines, brace_level) == Append(lines, CloseLines(brace_level))

\* if brace_level != 0
AnalyzeMustFix(brace_level) == brace_level # 0

analyze_and_fix(content) ==
    LET lines == ReadLines(content)
        brace_level == BraceLevel(lines)
        errors == ErrorLines(lines)
        report == [i \in 1..Cardinality(errors) |-> "Ligne"]
                     \o <<"Niveau final", "Nombre d'erreurs">>
    IN IF AnalyzeMustFix(brace_level)
       THEN IF brace_level < 0
            THEN LET r == RemoveSurplus(lines, -brace_level)
                 IN [file |-> Concat(r.lines), wrote |-> TRUE, status |-> 0,
                     stdout |-> report \o <<"en trop", "Fichier corrige!">>,
                     decision |-> "delete", popped |-> r.popped,
                     appended |-> 0]
            ELSE [file |-> Concat(AppendMissing(lines, brace_level)),
                  wrote |-> TRUE, status |-> 0,
                  stdout |-> report \o <<"Il manque", "Fichier corrige!">>,
                  decision |-> "append", popped |-> <<>>,
                  appended |-> brace_level]
       ELSE [file |-> content, wrote |-> FALSE, status |-> 0,
             stdout |-> report \o <<"Le fichier est equilibre!">>,
             decision |-> "nothing", popped |-> <<>>, appended |-> 0]

\* mutant: the elif written with >= for >
FixCompleteBranch_ge(open_braces, close_braces) ==
    IF close_braces > open_braces THEN "delete"
    ELSE IF open_braces >= close_braces THEN "append"
    ELSE "nothing"

\* the if / elif of fix_complete.py
FixCompleteBranch(open_braces, close_braces) ==
    IF close_braces > open_braces THEN "delete"
    ELSE IF open_braces > close_braces THEN "append"
    ELSE "nothing"

\* mutant: one '}' too few appended
AppendToContent_short(content, diff) ==
    content \o <<NL>> \o CloseLines(diff - 1)

\* content += '\n' + '}\n' * diff
AppendToContent(content, diff) == content \o <<NL>> \o CloseLines(diff)

fix_complete(content) ==
    LET open_braces == CountOpen(content)
        close_braces == CountClose(content)
        branch == FixCompleteBranch(open_braces, close_braces)
        counts == <<"Accolades ouvrantes", "Accolades fermantes", "Difference">>
    IN IF branch = "delete"
       THEN LET r == RemoveSurplus(Split(content), close_braces - open_braces)
            IN [file |-> Join(r.lines), wrote |-> TRUE, status |-> 0,
                stdout |-> counts \o <<"Il faut enlever", "Fichier corrige!">>,
                decision |-> "delete", popped |-> r.popped, appended |-> 0]
       ELSE IF branch = "append"
       THEN [file |-> AppendToContent(content, open_braces - close_braces),
             wrote |-> TRUE, status |-> 0,
             stdout |-> counts \o <<"Il faut ajouter", "Fichier corrige!">>,
             decision |-> "append", popped |-> <<>>,
             appended |-> open_braces - close_braces]
       ELSE [file |-> content, wrote |-> TRUE, status |-> 0,
             stdout |-> counts \o <<"Fichier corrige!">>,
             decision |-> "nothing", popped |-> <<>>, appended |-> 0]

\* ------------------------------------------- rebuild_favorites_section.py

\* new_section, the replacement block: the text of lines 37-104 up to its
\* last line, and that last line (the '}' closing the for block)
new_section_body ==
    <<" ", "M", "\n", " ", "x", "\n", " ", "x", "\n", " ", "x", "\n",
      " ", "\n", " ", "H", "\n", " ", "x", "\n", " ", "x", "\n", " ",
      "x", "\n", " ", "\n", " ", "x", " ", "{", "\n", " ", "x", "\n",
      " ", "x", "\n", " ", "x", "\n", " ", "x", "\n", " ", "}", "\n",
      " ", "\n", " ", "x", " ", "{", "\n", " ", "x", "\n", " ", "x",
      "\n", " ", "\n", " ", "x", " ", "{", "\n", " ", "x", "\n", " ",
      "x", "\n", " ", "x", "\n", " ", "x", "\n", " ", "x", "\n", " ",
      "}", "\n", " ", "\n", " ", "x", " ", "{", "\n", " ", "x", "\n",
      " ", "x", "\n", " ", "x", "\n", " ", "x", "\n", " ", "}", "\n",
      " ", "}", "\n", " ", "\n", " ", "x", " ", "{", "\n", " ", "x",
      "\n", " ", "x", "\n", " ", "x", "\n", " ", "x", "\n", " ", "\n",
      " ", "x", " ", "{", "\n", " ", "x", "\n", " ", "x", "\n", " ",
      "x", "\n", " ", "x", "\n", " ", "x", "\n", " ", "}", "\n", " ",
      "\n", " ", "x", " ", "{", "\n", " ", "x", "\n", " ", "x", " ",
      "{", " ", "\n", " ", "x", "\n", " ", "}", "\n", " ", "}", "\n",
      " ", "}", "\n", " ", "}", "\n", " ", "\n", " ", "x", " ", "{",
      "\n", " ", "x", "\n", " ", "x", " ", "{", " ", "\n", " ", "x",
      "\n", " ", "x", "\n", " ", "}", "\n", " ", "}", "\n">>

\* mutant: the block without its last closing brace
new_section_unclosed == new_section_body

new_section == new_section_body \o <<" ", "}", NL>>

HasMarker(line) == \E k \in DOMAIN line : line[k] = "M"

\* for i, line in enumerate(lines): if marker in line: start_idx = i; break
\* (indices are 1-based here, 0 stands for None)
RECURSIVE FindStart(_, _)
FindStart(lines, i) ==
    IF i > Len(lines) THEN 0
    ELSE IF HasMarker(lines[i]) THEN i
    ELSE FindStart(lines, i + 1)

\* mutant: the test i > start_idx left out
EndReached_any(brace_count, i, start_idx) == brace_count = 0

\* if brace_count == 0 and i > start_idx
EndReached(brace_count, i, start_idx) == brace_count = 0 /\ i > start_idx

\* for i in range(start_idx, len(lines)): brace_count += ...; break at the end
RECURSIVE FindEnd(_, _, _, _)
FindEnd(lines, start_idx, i, brace_count) ==
    IF i > Len(lines) THEN 0
    ELSE LET count == brace_count + CountOpen(lines[i]) - CountClose(lines[i])
         IN IF EndReached(count, i, start_idx) THEN i
            ELSE FindEnd(lines, start_idx, i + 1, count)

\* mutant: exit(0) for exit(1)
NotFoundStatus_success == 1 - 1

\* exit(1)
NotFoundStatus == 1

\* if start_idx is None: ... exit(1)
StartMissing(start_idx) == start_idx = 0

\* mutant: the exit after "Fin de section non trouvée!" left out
EndMissing_never(end_idx) == FALSE

\* if end_idx is None: ... exit(1)
EndMissing(end_idx) == end_idx = 0

\* new_lines = lines[:start_idx] + [new_section] + lines[end_idx+1:]
Splice(lines, start_idx, end_idx) ==
    SubSeq(lines, 1, start_idx - 1) \o <<new_section>>
        \o SubSeq(lines, end_idx + 1, Len(lines))

rebuild_favorites_section(content) ==
    LET lines == ReadLines(content)
        start_idx == FindStart(lines, 1)
        end_idx == FindEnd(lines, start_idx, start_idx, 0)
    IN IF StartMissing(start_idx)
       THEN [file |-> content, wrote |-> FALSE, status |-> NotFoundStatus,
             stdout |-> <<"Section des favoris non trouvee!">>,
             start_idx |-> 0, end_idx |-> 0]
       ELSE IF EndMissing(end_idx)
       THEN [file |-> content, wrote |-> FALSE, status |-> NotFoundStatus,
             stdout |-> <<"Fin de section non trouvee!">>,
             start_idx |-> start_idx, end_idx |-> 0]
       ELSE [file |-> Concat(Splice(lines, start_idx, end_idx)),
             wrote |-> TRUE, status |-> 0,
             stdout |-> <<"Section trouvee", "Fichier reconstruit avec succes!">>,
             start_idx |-> start_idx, end_idx |-> end_idx]

\* ------------------------------------------ fix_favorites.py, fix_final.py
\* re.sub with flags=re.DOTALL: every leftmost non-overlapping match is
\* replaced; a lazy quantifier takes the shortest extent for which the rest
\* of the pattern matches.

\* the first character after position p that \s does not match, 0 if none
RECURSIVE NextInk(_, _)
NextInk(c, p) ==
    IF p + 1 > Len(c) THEN 0
    ELSE IF c[p + 1] \notin Whitespace THEN p + 1
    ELSE NextInk(c, p + 1)

\* \s+\n\s+ matches c[from..to]: all white, a line feed strictly inside
WhiteAroundNL(c, from, to) ==
    /\ \A k \in from..to : c[k] \in Whitespace
    /\ \E k \in (from + 1)..(to - 1) : c[k] = NL

\* fix_final.py, the lookahead (?=\n\s+\}\s+\n\s+// Séparateur) at p
SeparatorAhead(c, p) ==
    /\ p \in DOMAIN c
    /\ c[p] = NL
    /\ LET q == NextInk(c, p)
           r == NextInk(c, q)
       IN /\ q > p + 1
          /\ c[q] = "}"
          /\ r > q + 1
          /\ c[r] = "S"
          /\ WhiteAroundNL(c, q + 1, r - 1)

\* fix_final.py, new_favorites_section
new_favorites_section ==
    <<"M", "\n", " ", "x", "\n", " ", "x", "\n", " ", "x", "\n", " ",
      "\n", " ", "H", "\n", " ", "x", "\n", " ", "x", "\n", " ", "x",
      "\n", " ", "\n", " ", "x", " ", "{", "\n", " ", "x", "\n", " ",
      "x", "\n", " ", "x", "\n", " ", "x", "\n", " ", "}", "\n", " ",
      "\n", " ", "x", " ", "{", "\n", " ", "x", "\n", " ", "x", "\n",
      " ", "\n", " ", "x", " ", "{", "\n", " ", "x", "\n", " ", "x",
      "\n", " ", "x", "\n", " ", "x", "\n", " ", "x", "\n", " ", "}",
      "\n", " ", "\n", " ", "x", " ", "{", "\n", " ", "x", "\n", " ",
      "x", "\n", " ", "x", "\n", " ", "x", "\n", " ", "}", "\n", " ",
      "}", "\n", " ", "\n", " ", "x", " ", "{", "\n", " ", "x", "\n",
      " ", "x", "\n", " ", "x", "\n", " ", "x", "\n", " ", "\n", " ",
      "x", " ", "{", "\n", " ", "x", "\n", " ", "x", "\n", " ", "x",
      "\n", " ", "x", "\n", " ", "x", "\n", " ", "}", "\n", " ", "\n",
      " ", "x", " ", "{", "\n", " ", "x", "\n", " ", "x", " ", "{", " ",
      "\n", " ", "x", "\n", " ", "}", "\n", " ", "}", "\n", " ", "}",
      "\n", " ", "}", "\n", " ", "\n", " ", "x", " ", "{", "\n", " ",
      "x", "\n", " ", "x", " ", "{", " ", "\n", " ", "x", "\n", " ",
      "x", "\n", " ", "}", "\n", " ", "}", "\n", " ", "}", "\n", " ">>

\* where the match of fix_final.py's pattern starting at i ends: the first
\* position after i with the separator ahead (the match is c[i..p-1]), 0 if none
FinalMatchEnd(c, i) ==
    LET ends == {p \in DOMAIN c : p > i /\ SeparatorAhead(c, p)}
    IN IF c[i] = "M" /\ ends # {} THEN Min(ends) ELSE 0

\* re.sub(pattern, new_favorites_section, content) from position pos on
RECURSIVE SubFinal(_, _)
SubFinal(c, pos) ==
    LET starts == {i \in DOMAIN c : i >= pos /\ FinalMatchEnd(c, i) # 0}
    IN IF starts = {} THEN [out |-> SubSeq(c, pos, Len(c)), n |-> 0]
       ELSE LET i == Min(starts)
                p == FinalMatchEnd(c, i)
                rest == SubFinal(c, p)
            IN [out |-> SubSeq(c, pos, i - 1) \o new_favorites_section \o rest.out,
                n |-> rest.n + 1]

\* print("Section des favoris reconstruite!"), whatever re.sub replaced
FinalMessages(n) == <<"Section des favoris reconstruite!">>

fix_final(content) ==
    LET r == SubFinal(content, 1)
    IN [file |-> r.out, wrote |-> TRUE, status |-> 0,
        stdout |-> FinalMessages(r.n), substitutions |-> r.n]

\* fix_favorites.py, replacement between \1 and \3
replacement ==
    <<"\n", " ", "x", "\n", " ", "x", "\n", " ", "x", "\n", " ", "\n",
      " ", "x", " ", "{", "\n", " ", "x", "\n", " ", "x", "\n", " ",
      "x", "\n", " ", "x", "\n", " ", "}", "\n", " ", "\n", " ", "x",
      " ", "{", "\n", " ", "x", "\n", " ", "x", "\n", " ", "\n", " ",
      "x", " ", "{", "\n", " ", "x", "\n", " ", "x", "\n", " ", "x",
      "\n", " ", "x", "\n", " ", "x", "\n", " ", "}", "\n", " ", "\n",
      " ", "x", " ", "{", "\n", " ", "x", "\n", " ", "x", "\n", " ",
      "x", "\n", " ", "x", "\n", " ", "}", "\n", " ", "}", "\n", " ",
      "\n", " ", "x", " ", "{", "\n", " ", "x", "\n", " ", "x", "\n",
      " ", "x", "\n", " ", "x", "\n", " ", "\n", " ", "x", " ", "{",
      "\n", " ", "x", "\n", " ", "x", "\n", " ", "x", "\n", " ", "x",
      "\n", " ", "x", "\n", " ", "}", "\n", " ", "\n", " ", "x", " ",
      "{", "\n", " ", "x", "\n", " ", "x", " ", "{", " ", "\n", " ",
      "x", "\n", " ", "}", "\n", " ", "}", "\n", " ", "}", "\n", " ",
      "}", "\n", " ", "\n", " ", "x", " ", "{", "\n", " ", "x", "\n",
      " ", "x", " ", "{", " ", "\n", " ", "x", "\n", " ", "x", "\n",
      " ", "}", "\n", " ", "}">>

\* group 3, (\n\s+\}\n\s+\}), at g: the position of its last '}', 0 if none
Group3End(c, g) ==
    IF g \in DOMAIN c /\ c[g] = NL
    THEN LET q == NextInk(c, g)
             q2 == NextInk(c, q + 1)
         IN IF /\ q > g + 1
               /\ c[q] = "}"
               /\ q + 1 \in DOMAIN c
               /\ c[q + 1] = NL
               /\ q2 > q + 2
               /\ c[q2] = "}"
            THEN q2 ELSE 0
    ELSE 0

\* the first g after h at which group 3 matches, 0 if none: (.*?) is lazy
FirstGroup3(c, h) ==
    LET gs == {g \in DOMAIN c : g > h /\ Group3End(c, g) # 0}
    IN IF gs = {} THEN 0 ELSE Min(gs)

\* group 1, (for fav ... \{[^}]*?\n\s+HorizontalLayout \{), from i with its
\* line feed at a: the position of "H", 0 if it does not match that way
Group1End(c, i, a) ==
    IF /\ c[i] = "M"
       /\ a > i
       /\ c[a] = NL
       /\ \A k \in (i + 1)..(a - 1) : c[k] # "}"
       /\ NextInk(c, a) > a + 1
       /\ c[NextInk(c, a)] = "H"
    THEN NextInk(c, a) ELSE 0

\* the match starting at i: [^}]*? takes the first line feed a for which
\* the rest matches.  [h |-> end of group 1, g |-> start of group 3,
\* e |-> end of the match], h = 0 if there is none
FavoritesMatch(c, i) ==
    LET as == {a \in DOMAIN c : /\ Group1End(c, i, a) # 0
                                /\ FirstGroup3(c, Group1End(c, i, a)) # 0}
    IN IF as = {} THEN [h |-> 0, g |-> 0, e |-> 0]
       ELSE LET h == Group1End(c, i, Min(as))
                g == FirstGroup3(c, h)
            IN [h |-> h, g |-> g, e |-> Group3End(c, g)]

\* re.sub(pattern, replacement, content) from position pos on
RECURSIVE SubFavorites(_, _)
SubFavorites(c, pos) ==
    LET starts == {i \in DOMAIN c : i >= pos /\ FavoritesMatch(c, i).h # 0}
    IN IF starts = {} THEN [out |-> SubSeq(c, pos, Len(c)), n |-> 0]
       ELSE LET i == Min(starts)
                m == FavoritesMatch(c, i)
                rest == SubFavorites(c, m.e + 1)
            IN [out |-> SubSeq(c, pos, m.h) \o replacement
                           \o SubSeq(c, m.g, m.e) \o rest.out,
                n |-> rest.n + 1]

\* print("Fichier corrigé avec succès!"), whatever re.sub replaced
FavoritesMessages(n) == <<"Fichier corrige avec succes!">>

fix_favorites(content) ==
    LET r == SubFavorites(content, 1)
    IN [file |-> r.out, wrote |-> TRUE, status |-> 0,
        stdout |-> FavoritesMessages(r.n), substitutions |-> r.n]

\* ---------------------------------------------------------- clean_recent.py
\* favorites.json is held as the value json.load gives and json.dump takes:
\* a record with the array recent_folders and the other field, favorites.
\* A path is a sequence of characters.

TestPath == <<"/", "t", "e", "s", "t", "/", "p", "a", "t", "h">>

\* str.startswith(prefix)
StartsWith(s, prefix) ==
    /\ Len(s) >= Len(prefix)
    /\ \A k \in DOMAIN prefix : s[k] = prefix[k]

\* mutant: == for startswith
IsTestPath_exact(path) == path = TestPath

\* folder['path'].startswith('/test/path')
IsTestPath(path) == StartsWith(path, TestPath)

\* mutant: the not of the comprehension left out
KeepFolder_inverted(folder) == IsTestPath(folder.path)

\* the condition of the list comprehension
KeepFolder(folder) == ~IsTestPath(folder.path)

clean_recent(data) ==
    LET original_count == Len(data.recent_folders)
        kept == SelectSeq(data.recent_folders, KeepFolder)
        new_count == Len(kept)
    IN [file |-> [data EXCEPT !.recent_folders = kept],
        wrote |-> TRUE, status |-> 0,
        stdout |-> <<"Nettoyage", "Fichier nettoye avec succes!">>,
        original_count |-> original_count, new_count |-> new_count]

\* ------------------------------------------------------------- the runs

BraceScripts == {"analyze_and_fix", "fix_complete"}

NotRun(doc) == [before |-> doc, wrote |-> FALSE, status |-> 0, stdout |-> <<>>]

\* one run of script s, whose result on the content c is r
Ran(s, c, r) ==
    /\ file' = [file EXCEPT ![s] = r.file]
    /\ runs' = [runs EXCEPT ![s] = @ + 1]
    /\ last' = [last EXCEPT ![s] = [before |-> c] @@ r]
    /\ UNCHANGED input

\* the scripts that put a fixed block into the document
Rebuilders == {"rebuild_favorites_section", "fix_favorites", "fix_final"}

RunLimit(s) == IF s \in Rebuilders THEN MaxRebuilds ELSE MaxRuns

CanRun(s) == s \in DOMAIN file /\ runs[s] < RunLimit(s)

RunAnalyzeAndFix ==
    /\ CanRun("analyze_and_fix")
    /\ Ran("analyze_and_fix", file["analyze_and_fix"],
           analyze_and_fix(file["analyze_and_fix"]))

RunFixComplete ==
    /\ CanRun("fix_complete")
    /\ Ran("fix_complete", file["fix_complete"],
           fix_complete(file["fix_complete"]))

Start(scripts, doc) ==
    /\ input = doc
    /\ file = [s \in scripts |-> doc]
    /\ runs = [s \in scripts |-> 0]
    /\ last = [s \in scripts |-> NotRun(doc)]

InitBrace == \E doc \in SeqsUpTo(BraceChars, MaxLen) : Start(BraceScripts, doc)

NextBrace == RunAnalyzeAndFix \/ RunFixComplete

SpecBrace == InitBrace /\ [][NextBrace]_vars

RunRebuildFavoritesSection ==
    /\ CanRun("rebuild_favorites_section")
    /\ Ran("rebuild_favorites_section", file["rebuild_favorites_section"],
           rebuild_favorites_section(file["rebuild_favorites_section"]))

\* the documents given to the rebuilder: up to MaxLines lines, the last one
\* with or without its line feed
RebuildLines == {<<"M">>, <<"M", "}">>, <<"{">>, <<"}">>, <<"x">>}

Terminated(lines) == [i \in DOMAIN lines |-> Append(lines[i], NL)]

RebuildDocs ==
    {Concat(Terminated(ls)) : ls \in SeqsUpTo(RebuildLines, MaxLines)}
        \cup {Concat(Terminated(ls)) \o l :
                 ls \in SeqsUpTo(RebuildLines, MaxLines - 1), l \in RebuildLines}

InitRebuild == \E doc \in RebuildDocs : Start({"rebuild_favorites_section"}, doc)

NextRebuild == RunRebuildFavoritesSection

SpecRebuild == InitRebuild /\ [][NextRebuild]_vars

RegexScripts == {"fix_favorites", "fix_final"}

RunFixFavorites ==
    /\ CanRun("fix_favorites")
    /\ Ran("fix_favorites", file["fix_favorites"],
           fix_favorites(file["fix_favorites"]))

RunFixFinal ==
    /\ CanRun("fix_final")
    /\ Ran("fix_final", file["fix_final"], fix_final(file["fix_final"]))

\* the documents given to the regex scripts: up to MaxChunks pieces
RegexChunks ==
    {<<"M">>, <<NL, " ", "H">>, <<NL, " ", "}">>, <<"x">>, <<"}">>,
     <<" ", NL, " ", "S">>}

RegexDocs == {Concat(cs) : cs \in SeqsUpTo(RegexChunks, MaxChunks)}

InitRegex == \E doc \in RegexDocs : Start(RegexScripts, doc)

NextRegex == RunFixFavorites \/ RunFixFinal

SpecRegex == InitRegex /\ [][NextRegex]_vars

RunCleanRecent ==
    /\ CanRun("clean_recent")
    /\ Ran("clean_recent", file["clean_recent"],
           clean_recent(file["clean_recent"]))

\* the paths of the entries: under the prefix, equal to it, continuing its
\* last name, shorter than it, holding it further in, differing in case, empty
Paths ==
    {TestPath, TestPath \o <<"/", "a">>, TestPath \o <<"o">>,
     <<"/", "t", "e", "s", "t">>, <<"/", "h">> \o TestPath,
     <<"/", "T", "e", "s", "t", "/", "p", "a", "t", "h">>, <<>>}

Folders == {[path |-> p] : p \in Paths}

ConfigDocs ==
    {[recent_folders |-> rf, favorites |-> fv] :
        rf \in SeqsUpTo(Folders, MaxFolders),
        fv \in {<<>>, <<[path |-> TestPath]>>}}

InitPrune == \E doc \in ConfigDocs : Start({"clean_recent"}, doc)

NextPrune == RunCleanRecent

SpecPrune == InitPrune /\ [][NextPrune]_vars

\* every script, each on the documents of its family
InitAll == InitBrace \/ InitRebuild \/ InitRegex \/ InitPrune

NextAll ==
    \/ RunAnalyzeAndFix
    \/ RunFixComplete
    \/ RunRebuildFavoritesSection
    \/ RunFixFavorites
    \/ RunFixFinal
    \/ RunCleanRecent

SpecAll == InitAll /\ [][NextAll]_vars

\* ================================================================ claims

IsInk(ch) == ch \notin Whitespace

IsNonBlank(line) == Strip(line) # <<>>

\* the characters of a document that are not white space, in order
Ink(content) == SelectSeq(content, IsInk)

\* the lines of a document that are not blank, in order, without line feeds
NonBlankLines(content) == SelectSeq(Split(content), IsNonBlank)

EndsWithNL(content) == content # <<>> /\ content[Len(content)] = NL

HasSuccessMessage(s) ==
    \E k \in DOMAIN last[s].stdout :
        last[s].stdout[k] \in {"Fichier corrige avec succes!",
                               "Section des favoris reconstruite!"}

\* the lines holding the start marker
MarkerLines(lines) == {i \in DOMAIN lines : HasMarker(lines[i])}

\* the lines after line s at which the braces of lines s..e sum to zero
SectionEnds(lines, s) ==
    {e \in DOMAIN lines : e > s /\ Net(Concat(SubSeq(lines, s, e))) = 0}

\* no marker line, or no later line closing the section of the first one
SectionNotFound(content) ==
    LET lines == ReadLines(content)
    IN \/ MarkerLines(lines) = {}
       \/ SectionEnds(lines, Min(MarkerLines(lines))) = {}

UnderTestPath(path) ==
    Len(path) >= Len(TestPath) /\ SubSeq(path, 1, Len(TestPath)) = TestPath

\* C1: after a run of a brace fixer the document is balanced: as many '{'
\* as '}'.  (Violated: surplus '}' that are not alone on their line stay.)
C1_BalancedAfterFix ==
    \A s \in DOMAIN file : runs[s] >= 1 => CountOpen(file[s]) = CountClose(file[s])

\* C2: a balanced document is left identical by one run and by a second run
\* of either brace fixer.
C2_BalancedInputUnchanged ==
    CountOpen(input) = CountClose(input) => \A s \in DOMAIN file : file[s] = input

C2_Witness ==
    /\ CountOpen(input) = CountClose(input)
    /\ CountOpen(input) >= 1
    /\ \A s \in DOMAIN file : s \in BraceScripts /\ runs[s] >= 2

\* the entries of old that are kept, as the k-th entry of the result
KeptIndices(old) == {i \in DOMAIN old : ~UnderTestPath(old[i].path)}

NthKept(old, k) ==
    CHOOSE i \in KeptIndices(old) :
        Cardinality({j \in KeptIndices(old) : j <= i}) = k

\* C3: after clean_recent.py recent_folders is exactly the entries of the
\* original array whose path does not start with '/test/path', in their
\* original order, and every other field is unchanged.
C3_PrunedExactly ==
    \A s \in DOMAIN file :
        (s = "clean_recent" /\ runs[s] >= 1) =>
            LET old == last[s].before.recent_folders
                new == file[s].recent_folders
            IN /\ Len(new) = Cardinality(KeptIndices(old))
               /\ \A k \in DOMAIN new : new[k] = old[NthKept(old, k)]
               /\ file[s].favorites = last[s].before.favorites
               /\ DOMAIN file[s] = DOMAIN last[s].before

C3_Witness ==
    /\ "clean_recent" \in DOMAIN file
    /\ runs["clean_recent"] = 1
    /\ Len(file["clean_recent"].recent_folders) >= 2
    /\ Len(file["clean_recent"].recent_folders) < Len(input.recent_folders)
    /\ input.favorites # <<>>

\* C4: the output of clean_recent.py holds no entry under the prefix, and a
\* second run on that output changes neither the entries nor their number.
C4_PruneIdempotent ==
    \A s \in DOMAIN file :
        (s = "clean_recent" /\ runs[s] >= 1) =>
            /\ \A k \in DOMAIN file[s].recent_folders :
                   ~UnderTestPath(file[s].recent_folders[k].path)
            /\ runs[s] >= 2 =>
                   /\ file[s] = last[s].before
                   /\ last[s].new_count = last[s].original_count

C4_Witness ==
    /\ "clean_recent" \in DOMAIN file
    /\ runs["clean_recent"] = 2
    /\ \E k \in DOMAIN input.recent_folders :
           UnderTestPath(input.recent_folders[k].path)
    /\ file["clean_recent"].recent_folders # <<>>

\* C5 as stated: every run of every script ends with the success status.
C5_AlwaysSuccess ==
    \A s \in DOMAIN file : runs[s] >= 1 => last[s].status = 0

\* C5 amended: rebuild_favorites_section.py ends with status 1 exactly when
\* the marker line or the end of its section is not found, and with 0
\* otherwise; every other script ends with status 0.
C5_ExitStatus ==
    \A s \in DOMAIN file :
        runs[s] >= 1 =>
            IF s = "rebuild_favorites_section"
            THEN last[s].status = (IF SectionNotFound(last[s].before) THEN 1 ELSE 0)
            ELSE last[s].status = 0

C5_Witness ==
    /\ "rebuild_favorites_section" \in DOMAIN file
    /\ runs["rebuild_favorites_section"] = 1
    /\ last["rebuild_favorites_section"].status = 1
    /\ MarkerLines(ReadLines(input)) = {}

\* C6: a regex script prints its success message only on a run in which the
\* pattern matched and a substitution was made.  (Violated: it always does.)
C6_MessageOnlyOnMatch ==
    \A s \in DOMAIN file :
        (s \in RegexScripts /\ runs[s] >= 1 /\ HasSuccessMessage(s)) =>
            last[s].substitutions >= 1

BothRanOnce ==
    /\ DOMAIN file = BraceScripts
    /\ runs["analyze_and_fix"] = 1
    /\ runs["fix_complete"] = 1

\* C7 as stated: on the same input the two fixers take the same decision,
\* pop the same lines or append the same number of '}', and their outputs
\* have the same non-blank lines and the same net brace difference.
C7_SameOutcome ==
    BothRanOnce =>
        /\ last["analyze_and_fix"].decision = last["fix_complete"].decision
        /\ last["analyze_and_fix"].popped = last["fix_complete"].popped
        /\ last["analyze_and_fix"].appended = last["fix_complete"].appended
        /\ NonBlankLines(file["analyze_and_fix"]) = NonBlankLines(file["fix_complete"])
        /\ Net(file["analyze_and_fix"]) = Net(file["fix_complete"])

\* C7 amended: same decision, same lines popped or same number of '}'
\* appended, same net brace difference and the same characters other than
\* white space; the non-blank lines are the same unless braces are appended
\* to an input that does not end with a line feed.
C7_SameOutcomeUpToLastLine ==
    BothRanOnce =>
        /\ last["analyze_and_fix"].decision = last["fix_complete"].decision
        /\ last["analyze_and_fix"].popped = last["fix_complete"].popped
        /\ last["analyze_and_fix"].appended = last["fix_complete"].appended
        /\ Net(file["analyze_and_fix"]) = Net(file["fix_complete"])
        /\ Ink(file["analyze_and_fix"]) = Ink(file["fix_complete"])
        /\ (last["analyze_and_fix"].decision # "append" \/ EndsWithNL(input)) =>
               NonBlankLines(file["analyze_and_fix"])
                   = NonBlankLines(file["fix_complete"])

C7_Witness ==
    /\ BothRanOnce
    /\ last["analyze_and_fix"].decision = "delete"
    /\ Len(last["fix_complete"].popped) >= 2
    /\ file["analyze_and_fix"] # <<>>

\* C8: on success the replaced range is [start_idx, end_idx], start_idx the
\* first marker line and end_idx the first later line at which the braces
\* counted from start_idx sum to zero; the document written is the lines
\* before start_idx, the replacement block, and the lines after end_idx.
C8_ReplacedRange ==
    \A s \in DOMAIN file :
        (s = "rebuild_favorites_section" /\ runs[s] >= 1 /\ last[s].status = 0) =>
            LET lines == ReadLines(last[s].before)
                starts == MarkerLines(lines)
            IN /\ starts # {}
               /\ SectionEnds(lines, Min(starts)) # {}
               /\ last[s].start_idx = Min(starts)
               /\ last[s].end_idx = Min(SectionEnds(lines, Min(starts)))
               /\ file[s] = Concat(SubSeq(lines, 1, last[s].start_idx - 1))
                              \o new_section
                              \o Concat(SubSeq(lines, last[s].end_idx + 1, Len(lines)))

C8_Witness ==
    /\ "rebuild_favorites_section" \in DOMAIN file
    /\ runs["rebuild_favorites_section"] = 1
    /\ last["rebuild_favorites_section"].status = 0
    /\ last["rebuild_favorites_section"].start_idx > 1
    /\ last["rebuild_favorites_section"].end_idx < Len(ReadLines(input))

\* C9: when no line holds the marker, or the braces counted from the marker
\* line never return to zero on a later line, the script stops before the
\* write: the file is not opened for writing and keeps its content.
C9_NotFoundLeavesFile ==
    \A s \in DOMAIN file :
        (s = "rebuild_favorites_section" /\ runs[s] >= 1
            /\ SectionNotFound(last[s].before)) =>
                /\ ~last[s].wrote
                /\ file[s] = last[s].before

C9_Witness ==
    /\ "rebuild_favorites_section" \in DOMAIN file
    /\ runs["rebuild_favorites_section"] = 1
    /\ MarkerLines(ReadLines(input)) # {}
    /\ SectionNotFound(input)
    /\ Len(ReadLines(input)) >= 3

\* C10: a successful run leaves the net brace difference of the document
\* as it was; a balanced document stays balanced.
C10_NetBracesPreserved ==
    \A s \in DOMAIN file :
        (s = "rebuild_favorites_section" /\ runs[s] >= 1 /\ last[s].status = 0) =>
            Net(file[s]) = Net(last[s].before)

C10_Witness ==
    /\ "rebuild_favorites_section" \in DOMAIN file
    /\ runs["rebuild_favorites_section"] = 1
    /\ last["rebuild_favorites_section"].wrote
    /\ Net(input) = 0
    /\ Net(file["rebuild_favorites_section"]) = 0
    /\ file["rebuild_favorites_section"] # input

====
